---- MODULE Spec2Model ----
(***************************************************************************)
(* The Speaker's Gym: the service worker (src/sw.js) and the feedback      *)
(* handlers (src/api/feedback.js) as state machines.                       *)
(*                                                                         *)
(* The specifications share the module's variables, one per independent   *)
(* part of the program; each leaves the other parts' variables alone:      *)
(*   SpecReminder    the daily reminder, concurrent invocations            *)
(*   SpecInvocation  the daily reminder, one invocation                    *)
(*   SpecCache       install / activate / fetch of the service worker      *)
(*   SpecFeedback    the three serverless feedback handlers                *)
(*   SpecMetrics     analyzeMetrics, a pure function                       *)
(***************************************************************************)
EXTENDS Integers, Sequences, FiniteSets, TLC

VARIABLES
  \* ---- reminder (sw.js 73-212)
  settingsStore,   \* value of key 'notifications' in object store 'settings'
  statsStore,      \* value of key 'daily' in object store 'stats'
  clock,           \* the wall clock: [day, hours, minutes]
  inv,             \* the sendDailyReminder invocations, by slot
  \* ---- caches (sw.js 22-52)
  cacheStore,      \* CacheStorage: cache name -> [exists, entries]
  install,         \* the install handler's promise chain
  activate,        \* the activate handler's promise chain
  fetches,         \* the fetch events, by slot
  \* ---- feedback handlers (api/feedback.js)
  req,             \* the request of this invocation
  hpc,             \* the handler's position
  responses,       \* the responses sent, in order
  vendorCalls,     \* the vendor API calls made, in order
  thrown,          \* the exception thrown inside the handler, if any
  \* ---- analyzeMetrics (api/feedback.js 101-151)
  mWords, mDuration, mResult, mDivisions

reminderVars == <<settingsStore, statsStore, clock, inv>>
cacheVars    == <<cacheStore, install, activate, fetches>>
feedbackVars == <<req, hpc, responses, vendorCalls, thrown>>
metricsVars  == <<mWords, mDuration, mResult, mDivisions>>
vars == <<reminderVars, cacheVars, feedbackVars, metricsVars>>

---------------------------------------------------------------------------
(* Generic helpers on sequences of characters (JavaScript strings).        *)

\* String.prototype.includes: sub occurs in s as a contiguous run.
Includes(s, sub) ==
  \E i \in 0..(Len(s) - Len(sub)) :
    \A k \in 1..Len(sub) : s[i + k] = sub[k]

---------------------------------------------------------------------------
(* The daily reminder: sw.js 73-212.                                       *)

\* Bounds of the model.
MaxInvocations == 2
MaxDay == 2
MaxSpeeches == 1

Slots == 1..MaxInvocations
Days  == 1..MaxDay

\* Readings of the wall clock the model visits, as <<hours, minutes>>, and
\* the scheduled times a settings record may hold.
ClockTimes  == { <<9, 29>>, <<9, 30>>, <<10, 5>> }
TargetTimes == { <<9, 30>>, <<10, 0>> }

DigitChars == <<"0", "1", "2", "3", "4", "5", "6", "7", "8", "9">>

\* The page stores the value of a time input: 'HH:MM', zero padded.
FormatTime(t) ==
  << DigitChars[(t[1] \div 10) + 1], DigitChars[(t[1] % 10) + 1], ":",
     DigitChars[(t[2] \div 10) + 1], DigitChars[(t[2] % 10) + 1] >>

\* Date.prototype.toDateString: one string per calendar day.
toDateString(day) == <<day>>

\* String.prototype.split with a one-character separator.
RECURSIVE Split(_, _)
Split(s, sep) ==
  IF \A i \in 1..Len(s) : s[i] # sep
  THEN <<s>>
  ELSE LET i == CHOOSE k \in 1..Len(s) :
                  s[k] = sep /\ \A j \in 1..(k - 1) : s[j] # sep
       IN  <<SubSeq(s, 1, i - 1)>> \o Split(SubSeq(s, i + 1, Len(s)), sep)

\* Number(string) on a string of decimal digits ('' is 0).
RECURSIVE Number(_)
Number(s) ==
  IF Len(s) = 0 THEN 0
  ELSE Number(SubSeq(s, 1, Len(s) - 1)) * 10
       + (CHOOSE d \in 0..9 : DigitChars[d + 1] = s[Len(s)])

\* A record of the object stores, or undefined (present = FALSE).
NoSettings == [present |-> FALSE, enabled |-> FALSE, time |-> <<>>,
               lastNotificationDate |-> <<>>]
NoStats    == [present |-> FALSE, lastDate |-> <<>>, todaySpeeches |-> 0]

SettingsValues ==
  [present : {TRUE}, enabled : BOOLEAN,
   time : {FormatTime(t) : t \in TargetTimes},
   lastNotificationDate : {<<>>} \cup {toDateString(d) : d \in Days}]

StatsValues ==
  [present : {TRUE}, lastDate : {<<>>} \cup {toDateString(d) : d \in Days},
   todaySpeeches : 0..MaxSpeeches]

IdleInvocation ==
  [pc |-> "idle", trigger |-> "none",
   readSettings |-> "no", settings |-> NoSettings,
   readStats |-> "no", stats |-> NoStats,
   today |-> <<>>, now |-> <<0, 0>>, shouldSend |-> FALSE,
   shownOn |-> <<>>, shown |-> "no", marked |-> NoSettings, wrote |-> FALSE]

\* sw.js 140-141, with > for >=
isPastTimeStrict(currentHours, currentMinutes, targetHours, targetMinutes) ==
  \/ currentHours > targetHours
  \/ (currentHours = targetHours /\ currentMinutes > targetMinutes)

\* sw.js 140-141
isPastTime(currentHours, currentMinutes, targetHours, targetMinutes) ==
  \/ currentHours > targetHours
  \/ (currentHours = targetHours /\ currentMinutes >= targetMinutes)

\* sw.js 124-127 with the check left out
practicedNever(stats, today) == FALSE

\* sw.js 124-127: already practiced today
practicedToday(stats, today) ==
  stats.present /\ stats.lastDate = today /\ stats.todaySpeeches > 0

\* sw.js 119 with the enabled flag ignored
notificationsOffNever(settings) == ~settings.present

\* sw.js 119: !settings || !settings.enabled
notificationsOff(settings) == ~settings.present \/ ~settings.enabled

\* sw.js 129-143: the rest of shouldSendNotification, once both reads are in.
afterReads(settings, stats, today, now) ==
  IF practicedToday(stats, today) THEN FALSE
  ELSE IF settings.lastNotificationDate = today THEN FALSE
  ELSE LET target == Split(settings.time, ":")
           targetHours   == Number(target[1])
           targetMinutes == Number(target[2])
       IN  isPastTime(now[1], now[2], targetHours, targetMinutes)

ReminderInit ==
  /\ settingsStore \in {NoSettings} \cup SettingsValues
  /\ statsStore \in {NoStats} \cup {st \in StatsValues : st.lastDate = <<>>}
  /\ clock \in [day : {1}, time : ClockTimes]
  /\ inv = [i \in Slots |-> IdleInvocation]

\* JavaScript runs a turn to completion: between the turn in which
\* shouldSendNotification returns and the continuation of sendDailyReminder
\* that awaits it, only microtasks run, so no other event, database
\* callback or page write is handled while an invocation is at "decided".
quiet == \A j \in Slots : inv[j].pc # "decided"

\* sw.js 151-152: an invocation starts and awaits shouldSendNotification,
\* which awaits its first getFromDB.
startReminder(i, trigger) ==
  /\ inv[i].pc = "idle"
  /\ \A j \in Slots : j < i => inv[j].pc # "idle"
  /\ inv' = [inv EXCEPT ![i] =
               [IdleInvocation EXCEPT !.pc = "getSettings", !.trigger = trigger]]
  /\ UNCHANGED <<settingsStore, statsStore, clock>>

\* sw.js 182-186
PeriodicSync(i, tag) ==
  /\ quiet
  /\ IF tag = "daily-reminder-sync"
     THEN startReminder(i, "periodicsync")
     ELSE UNCHANGED reminderVars
  /\ UNCHANGED <<cacheVars, feedbackVars, metricsVars>>

\* sw.js 189-193
SyncEvent(i, tag) ==
  /\ quiet
  /\ IF tag = "daily-reminder"
     THEN startReminder(i, "sync")
     ELSE UNCHANGED reminderVars
  /\ UNCHANGED <<cacheVars, feedbackVars, metricsVars>>

\* sw.js 196-212: only CHECK_REMINDER touches the reminder state.
MessageEvent(i, type) ==
  /\ quiet
  /\ IF type = "CHECK_REMINDER"
     THEN startReminder(i, "message")
     ELSE UNCHANGED reminderVars
  /\ UNCHANGED <<cacheVars, feedbackVars, metricsVars>>

\* sw.js 118-119 (and 144-147 when getFromDB rejects)
GetSettings(i, ok) ==
  /\ quiet
  /\ inv[i].pc = "getSettings"
  /\ inv' = [inv EXCEPT ![i] =
       IF ~ok
       THEN [@ EXCEPT !.pc = "decided", !.readSettings = "error"]
       ELSE IF notificationsOff(settingsStore)
       THEN [@ EXCEPT !.pc = "decided", !.readSettings = "ok",
                      !.settings = settingsStore]
       ELSE [@ EXCEPT !.pc = "getStats", !.readSettings = "ok",
                      !.settings = settingsStore]]
  /\ UNCHANGED <<settingsStore, statsStore, clock>>
  /\ UNCHANGED <<cacheVars, feedbackVars, metricsVars>>

\* sw.js 121-143 (and 144-147 when getFromDB rejects)
GetStats(i, ok) ==
  /\ quiet
  /\ inv[i].pc = "getStats"
  /\ LET today == toDateString(clock.day)
     IN inv' = [inv EXCEPT ![i] =
          IF ~ok
          THEN [@ EXCEPT !.pc = "decided", !.readStats = "error"]
          ELSE [@ EXCEPT !.pc = "decided",
                         !.readStats = "ok", !.stats = statsStore,
                         !.today = today, !.now = clock.time,
                         !.shouldSend =
                            afterReads(inv[i].settings, statsStore, today, clock.time)]]
  /\ UNCHANGED <<settingsStore, statsStore, clock>>
  /\ UNCHANGED <<cacheVars, feedbackVars, metricsVars>>

\* What is left of an invocation's record once the locals of
\* shouldSendNotification are out of scope.
forget(r, pc) ==
  [IdleInvocation EXCEPT !.pc = pc, !.trigger = r.trigger,
                         !.shouldSend = r.shouldSend,
                         !.shownOn = r.shownOn, !.shown = r.shown,
                         !.wrote = r.wrote]

\* sw.js 152-167: sendDailyReminder continues with the result: it returns,
\* or it calls showNotification and awaits it.
Resume(i) ==
  /\ inv[i].pc = "decided"
  /\ inv' = [inv EXCEPT ![i] =
       IF ~inv[i].shouldSend
       THEN forget(inv[i], "settled")
       ELSE [forget(inv[i], "showNotification") EXCEPT
               !.shownOn = toDateString(clock.day)]]
  /\ UNCHANGED <<settingsStore, statsStore, clock>>
  /\ UNCHANGED <<cacheVars, feedbackVars, metricsVars>>

\* sw.js 157-167 with the rejection swallowed: the invocation goes on to
\* mark the reminder as sent either way.
ShowNotificationAlwaysMarks(i, ok) ==
  /\ quiet
  /\ inv[i].pc = "showNotification"
  /\ inv' = [inv EXCEPT ![i].pc = "markGet",
                         ![i].shown = IF ok THEN "resolved" ELSE "rejected"]
  /\ UNCHANGED <<settingsStore, statsStore, clock>>
  /\ UNCHANGED <<cacheVars, feedbackVars, metricsVars>>

\* sw.js 157-167: showNotification resolves, or rejects (no permission) and
\* the invocation ends with the rejection.
ShowNotification(i, ok) ==
  /\ quiet
  /\ inv[i].pc = "showNotification"
  /\ inv' = [inv EXCEPT ![i].pc = IF ok THEN "markGet" ELSE "rejected",
                         ![i].shown = IF ok THEN "resolved" ELSE "rejected"]
  /\ UNCHANGED <<settingsStore, statsStore, clock>>
  /\ UNCHANGED <<cacheVars, feedbackVars, metricsVars>>

\* sw.js 171-173 (and 176-178 when getFromDB rejects)
MarkGet(i, ok) ==
  /\ quiet
  /\ inv[i].pc = "markGet"
  /\ inv' = [inv EXCEPT ![i] =
       IF ~ok \/ ~settingsStore.present
       THEN [@ EXCEPT !.pc = "settled"]
       ELSE [@ EXCEPT !.pc = "markSave",
                      !.marked = [settingsStore EXCEPT
                         !.lastNotificationDate = toDateString(clock.day)]]]
  /\ UNCHANGED <<settingsStore, statsStore, clock>>
  /\ UNCHANGED <<cacheVars, feedbackVars, metricsVars>>

\* sw.js 174 with saveToDB 103-113 (and 176-178 when it rejects)
MarkSave(i, ok) ==
  /\ quiet
  /\ inv[i].pc = "markSave"
  /\ inv' = [inv EXCEPT ![i] = [forget(inv[i], "settled") EXCEPT !.wrote = ok]]
  /\ settingsStore' = IF ok THEN inv[i].marked ELSE settingsStore
  /\ UNCHANGED <<statsStore, clock>>
  /\ UNCHANGED <<cacheVars, feedbackVars, metricsVars>>

\* The page: it writes the settings record (enable, disable, change the
\* time), keeping the other fields of the record it holds.
PageSaveSettings(enabled, time) ==
  /\ quiet
  /\ settingsStore' =
       [present |-> TRUE, enabled |-> enabled, time |-> FormatTime(time),
        lastNotificationDate |-> settingsStore.lastNotificationDate]
  /\ settingsStore' # settingsStore
  /\ UNCHANGED <<statsStore, clock, inv>>
  /\ UNCHANGED <<cacheVars, feedbackVars, metricsVars>>

\* The page: a speech was practiced; the daily count restarts on a new day.
PagePractice ==
  /\ quiet
  /\ LET today == toDateString(clock.day)
         count == IF statsStore.present /\ statsStore.lastDate = today
                  THEN statsStore.todaySpeeches ELSE 0
     IN /\ count < MaxSpeeches
        /\ statsStore' = [present |-> TRUE, lastDate |-> today,
                          todaySpeeches |-> count + 1]
  /\ UNCHANGED <<settingsStore, clock, inv>>
  /\ UNCHANGED <<cacheVars, feedbackVars, metricsVars>>

\* Time passes: later the same day, or into the next day.
Tick(day, time) ==
  /\ quiet
  /\ day \in Days
  /\ \/ day = clock.day /\ ( \/ time[1] > clock.time[1]
                             \/ (time[1] = clock.time[1] /\ time[2] > clock.time[2]) )
     \/ day = clock.day + 1
  /\ clock' = [day |-> day, time |-> time]
  /\ UNCHANGED <<settingsStore, statsStore, inv>>
  /\ UNCHANGED <<cacheVars, feedbackVars, metricsVars>>

PeriodicSyncTags == {"daily-reminder-sync", "content-sync"}
SyncTags         == {"daily-reminder", "outbox"}
MessageTypes     == {"CHECK_REMINDER", "SHOW_NOTIFICATION"}

\* The steps of the invocations in the slots S, of the page and of the clock.
ReminderSteps(S) ==
  \/ \E i \in S, tag \in PeriodicSyncTags : PeriodicSync(i, tag)
  \/ \E i \in S, tag \in SyncTags : SyncEvent(i, tag)
  \/ \E i \in S, type \in MessageTypes : MessageEvent(i, type)
  \/ \E i \in S, ok \in BOOLEAN : GetSettings(i, ok)
  \/ \E i \in S, ok \in BOOLEAN : GetStats(i, ok)
  \/ \E i \in S : Resume(i)
  \/ \E i \in S, ok \in BOOLEAN : ShowNotification(i, ok)
  \/ \E i \in S, ok \in BOOLEAN : MarkGet(i, ok)
  \/ \E i \in S, ok \in BOOLEAN : MarkSave(i, ok)
  \/ \E e \in BOOLEAN, t \in TargetTimes : PageSaveSettings(e, t)
  \/ PagePractice
  \/ \E d \in Days, t \in ClockTimes : Tick(d, t)

\* Every invocation the events start, concurrently.
ReminderNext == ReminderSteps(Slots)

\* One invocation of sendDailyReminder against the page and the clock.
InvocationNext == ReminderSteps({1})

\* The reminder part at rest, for the specifications of the other parts.
ReminderParked ==
  /\ settingsStore = NoSettings
  /\ statsStore = NoStats
  /\ clock = [day |-> 1, time |-> <<9, 29>>]
  /\ inv = [i \in Slots |-> IdleInvocation]

---------------------------------------------------------------------------
(* Claims about the daily reminder.                                        *)

\* The invocations that called showNotification on day d.
shownOnDay(d) == {i \in Slots : inv[i].shownOn = toDateString(d)}

\* C1: once one invocation has called showNotification on a calendar day,
\* no later or concurrently running invocation calls it on that day: on
\* every day at most one invocation has called showNotification.
C1_OncePerDay == \A d \in Days : Cardinality(shownOnDay(d)) <= 1

\* What invocation i read says the user practiced today: the stats record
\* has lastDate equal to today's date string and todaySpeeches > 0.
readPracticed(i) ==
  /\ inv[i].readStats = "ok"
  /\ inv[i].stats.present
  /\ inv[i].stats.lastDate = inv[i].today
  /\ inv[i].stats.todaySpeeches > 0

\* What invocation i read says notifications are off: the settings record
\* is absent or its enabled flag is falsy.
readDisabled(i) ==
  /\ inv[i].readSettings = "ok"
  /\ (~inv[i].settings.present \/ ~inv[i].settings.enabled)

\* An invocation whose shouldSendNotification did not return true has not
\* called showNotification, has not written the settings record and is at
\* no step that leads to either.
noEffect(i) ==
  /\ inv[i].shownOn = <<>>
  /\ ~inv[i].wrote
  /\ inv[i].pc \in {"idle", "getSettings", "getStats", "decided", "settled"}

\* C8: whenever the 'daily' stats record read by shouldSendNotification has
\* lastDate equal to today and todaySpeeches > 0, shouldSendNotification
\* returns false, and an invocation for which it returned false calls
\* showNotification zero times and does not write the settings record,
\* whatever the scheduled time and lastNotificationDate are.
C8_NoReminderAfterPractice ==
  \A i \in Slots :
    /\ readPracticed(i) => (inv[i].pc = "decided" /\ ~inv[i].shouldSend)
    /\ ~inv[i].shouldSend => noEffect(i)

\* C8's case: the user practiced today, and nothing else holds the
\* reminder back (enabled, none sent today, the scheduled time has passed).
C8_Witness ==
  \E i \in Slots :
    /\ inv[i].pc = "decided" /\ readPracticed(i)
    /\ inv[i].settings.enabled
    /\ inv[i].settings.lastNotificationDate # inv[i].today
    /\ inv[i].settings.time = FormatTime(<<9, 30>>)
    /\ inv[i].now = <<10, 5>>
    /\ ~inv[i].shouldSend

\* sw.js 134-143 on every time of the day against every stored 'HH:MM'.
pastTimeAllDay ==
  \A th \in 0..23, tm \in 0..59 :
    LET target == Split(FormatTime(<<th, tm>>), ":")
        targetHours   == Number(target[1])
        targetMinutes == Number(target[2])
    IN \A ch \in 0..23, cm \in 0..59 :
         isPastTime(ch, cm, targetHours, targetMinutes)
           <=> (ch * 60 + cm >= th * 60 + tm)

\* C9: with notifications enabled, no practice today and no reminder sent
\* today, shouldSendNotification returns true exactly when
\* currentHours*60 + currentMinutes >= targetHours*60 + targetMinutes, for
\* the stored settings.time 'HH:MM': in every invocation that has read both
\* records, and for every time of the day against every 'HH:MM'.
C9_SentOnceTimeHasPassed ==
  /\ \A i \in Slots, t \in TargetTimes :
       ( /\ inv[i].pc = "decided"
         /\ inv[i].readSettings = "ok" /\ inv[i].readStats = "ok"
         /\ inv[i].settings.present /\ inv[i].settings.enabled
         /\ ~readPracticed(i)
         /\ inv[i].settings.lastNotificationDate # inv[i].today
         /\ inv[i].settings.time = FormatTime(t) )
       => ( inv[i].shouldSend
              <=> (inv[i].now[1] * 60 + inv[i].now[2] >= t[1] * 60 + t[2]) )
  /\ pastTimeAllDay

\* C9's case: the current time is exactly the scheduled time, and the
\* reminder is sent.
C9_Witness ==
  \E i \in Slots :
    /\ inv[i].pc = "decided"
    /\ inv[i].readStats = "ok" /\ ~readPracticed(i)
    /\ inv[i].settings.lastNotificationDate # inv[i].today
    /\ inv[i].settings.time = FormatTime(<<9, 30>>)
    /\ inv[i].now = <<9, 30>>
    /\ inv[i].shouldSend

\* C10: whenever the 'notifications' settings record read by
\* shouldSendNotification is absent or its enabled flag is falsy,
\* shouldSendNotification returns false without reading further, and an
\* invocation for which it returned false calls showNotification zero times
\* and writes nothing to the settings store, whichever event started it.
C10_DisabledSuppresses ==
  \A i \in Slots :
    /\ readDisabled(i) =>
         ( /\ inv[i].pc = "decided" /\ ~inv[i].shouldSend
           /\ inv[i].readStats = "no"
           /\ inv[i].trigger \in {"periodicsync", "sync", "message"} )
    /\ ~inv[i].shouldSend => noEffect(i)

\* C10's case: a CHECK_REMINDER message while the stored record is present
\* with notifications disabled.
C10_Witness ==
  \E i \in Slots :
    /\ inv[i].pc = "decided" /\ readDisabled(i)
    /\ inv[i].settings.present
    /\ inv[i].trigger = "message"

\* Invocation i takes this step, and the step changes the settings record.
writesSettings(i) == inv'[i] # inv[i] /\ settingsStore' # settingsStore

\* Invocation i leaves the marking block (sw.js 170-178) with this step
\* without having written: the read or the write failed, or no record was
\* found.
leavesUnmarked(i) ==
  /\ inv[i].pc \in {"markGet", "markSave"}
  /\ inv'[i].pc \notin {"markGet", "markSave"}
  /\ ~inv'[i].wrote

\* C11: a step of an invocation changes the settings record only after its
\* showNotification has resolved, and then it stores as lastNotificationDate
\* the date it read after the notification was shown; an invocation whose
\* shouldSendNotification returned false or whose showNotification rejected
\* never changes the record; and when the read or the write of the record
\* fails after the notification was shown, the invocation settles (the
\* error is caught) and the record, lastNotificationDate included, is what
\* it was.
C11_MarkedOnlyAfterShown ==
  [][\A i \in Slots :
       /\ writesSettings(i) =>
            /\ inv[i].shouldSend /\ inv[i].shown = "resolved"
            /\ inv[i].shownOn # <<>>
            /\ settingsStore'.lastNotificationDate # <<>>
            /\ inv[i].shownOn[1] <= settingsStore'.lastNotificationDate[1]
            /\ settingsStore'.lastNotificationDate[1] <= clock.day
       /\ (inv[i].shown = "rejected" \/ ~inv[i].shouldSend) =>
            (~inv[i].wrote /\ ~writesSettings(i))
       /\ leavesUnmarked(i) =>
            (inv'[i].pc = "settled" /\ settingsStore' = settingsStore)
    ]_vars

\* C11's case: the notification was shown, and the invocation then wrote
\* today's date to the record that had none.
C11_Witness ==
  \E i \in Slots :
    /\ inv[i].pc = "settled" /\ inv[i].shown = "resolved" /\ inv[i].wrote
    /\ settingsStore.lastNotificationDate = inv[i].shownOn

\* C13: marking a reminder as sent changes only lastNotificationDate: no
\* step of an invocation changes the presence, the enabled flag or the time
\* of the stored settings record, so these stay what was most recently
\* written, also when the page wrote the record between the invocation's
\* read and its write-back.
C13_MarkChangesOnlyDate ==
  [][\A i \in Slots :
       inv'[i] # inv[i] =>
         /\ settingsStore'.present = settingsStore.present
         /\ settingsStore'.enabled = settingsStore.enabled
         /\ settingsStore'.time = settingsStore.time
    ]_vars

---------------------------------------------------------------------------
(* Install, activate and fetch: sw.js 1-52.                                *)

\* Bound of the model: the fetch events handled.
MaxFetches == 2

FetchSlots == 1..MaxFetches

\* sw.js 2
CACHE_NAME == "speakers-gym-v2"

\* The caches of earlier versions and of other code of the origin.
OldCacheNames == {"speakers-gym-v1", "runtime"}
CacheNames    == OldCacheNames \cup {CACHE_NAME}

UrlRoot     == <<"/">>
UrlIndex    == <<"/", "i", "n", "d", "e", "x", ".", "h", "t", "m", "l">>
UrlManifest == <<"/", "m", "a", "n", "i", "f", "e", "s", "t", ".", "j", "s", "o", "n">>
UrlIcon192  == <<"/", "i", "c", "o", "n", "-", "1", "9", "2", ".", "p", "n", "g">>
UrlIcon512  == <<"/", "i", "c", "o", "n", "-", "5", "1", "2", ".", "p", "n", "g">>
UrlFeedback == <<"/", "a", "p", "i", "/", "f", "e", "e", "d", "b", "a", "c", "k">>
UrlApiDocs  == <<"/", "a", "p", "i", "-", "d", "o", "c", "s">>
UrlScript   == <<"/", "a", "p", "p", ".", "j", "s">>

\* sw.js 3-9
ASSETS == {UrlRoot, UrlIndex, UrlManifest, UrlIcon192, UrlIcon512}

\* The requests the pages make: their URLs (the path of the absolute URL of
\* event.request) and methods.
RequestUrls    == {UrlRoot, UrlIndex, UrlFeedback, UrlApiDocs, UrlScript}
RequestMethods == {"GET", "POST"}

\* What an old cache holds when it exists.
OldEntries(name) ==
  IF name = "speakers-gym-v1" THEN {UrlRoot, UrlIndex} ELSE {UrlScript}

NoCache == [exists |-> FALSE, entries |-> {}]

existing == {n \in CacheNames : cacheStore[n].exists}

IdleFetch ==
  [pc |-> "idle", method |-> "GET", url |-> UrlRoot, respondWith |-> FALSE,
   hit |-> FALSE, network |-> FALSE, response |-> "none"]

CacheInit ==
  /\ cacheStore \in
       { c \in [CacheNames -> {NoCache} \cup
                                [exists : {TRUE},
                                 entries : {{}, ASSETS, {UrlRoot, UrlIndex}, {UrlScript}}]] :
           /\ \A n \in OldCacheNames :
                c[n].exists => c[n].entries = OldEntries(n)
           /\ c[CACHE_NAME].exists => c[CACHE_NAME].entries \in {{}, ASSETS} }
  /\ install = [pc |-> "waiting"]
  /\ activate = [pc |-> "waiting", atEvent |-> {}, keys |-> {}, pending |-> {},
                 deleted |-> {}, failed |-> FALSE, claimCalled |-> FALSE]
  /\ fetches = [f \in FetchSlots |-> IdleFetch]

\* sw.js 23-25: the install event; caches.open(CACHE_NAME) is requested.
InstallEvent ==
  /\ install.pc = "waiting"
  /\ install' = [pc |-> "open"]
  /\ UNCHANGED <<cacheStore, activate, fetches>>
  /\ UNCHANGED <<reminderVars, feedbackVars, metricsVars>>

\* sw.js 25-26: caches.open creates the cache when there is none; addAll
\* is requested.
InstallOpen ==
  /\ install.pc = "open"
  /\ cacheStore' =
       IF cacheStore[CACHE_NAME].exists THEN cacheStore
       ELSE [cacheStore EXCEPT ![CACHE_NAME] = [exists |-> TRUE, entries |-> {}]]
  /\ install' = [pc |-> "addAll"]
  /\ UNCHANGED <<activate, fetches>>
  /\ UNCHANGED <<reminderVars, feedbackVars, metricsVars>>

\* sw.js 26-27: addAll stores every asset, or rejects (a request failed)
\* and stores none; then skipWaiting is requested.
InstallAddAll(ok) ==
  /\ install.pc = "addAll"
  /\ cacheStore[CACHE_NAME].exists
  /\ cacheStore' =
       IF ok
       THEN [cacheStore EXCEPT ![CACHE_NAME].entries = @ \cup ASSETS]
       ELSE cacheStore
  /\ install' = [pc |-> IF ok THEN "skipWaiting" ELSE "failed"]
  /\ UNCHANGED <<activate, fetches>>
  /\ UNCHANGED <<reminderVars, feedbackVars, metricsVars>>

\* sw.js 27: skipWaiting resolves; the install promise resolves.
InstallSkipWaiting ==
  /\ install.pc = "skipWaiting"
  /\ install' = [pc |-> "installed"]
  /\ UNCHANGED <<cacheStore, activate, fetches>>
  /\ UNCHANGED <<reminderVars, feedbackVars, metricsVars>>

\* sw.js 36 with every key kept
staleKeysAll(keys) == keys

\* sw.js 36: keys.filter((key) => key !== CACHE_NAME)
staleKeys(keys) == {key \in keys : key # CACHE_NAME}

\* sw.js 32-34: the activate event, after a successful install;
\* caches.keys() is requested.
ActivateEvent ==
  /\ install.pc = "installed"
  /\ activate.pc = "waiting"
  /\ activate' = [activate EXCEPT !.pc = "keys", !.atEvent = existing]
  /\ UNCHANGED <<cacheStore, install, fetches>>
  /\ UNCHANGED <<reminderVars, feedbackVars, metricsVars>>

\* sw.js 34-39: caches.keys() resolves; caches.delete is requested for every
\* stale key at once. With none, Promise.all resolves and clients.claim is
\* called.
ActivateKeys ==
  /\ activate.pc = "keys"
  /\ LET stale == staleKeys(existing)
     IN activate' = [activate EXCEPT
          !.keys = existing, !.pending = stale,
          !.pc = IF stale = {} THEN "claim" ELSE "deleting",
          !.claimCalled = (stale = {})]
  /\ UNCHANGED <<cacheStore, install, fetches>>
  /\ UNCHANGED <<reminderVars, feedbackVars, metricsVars>>

\* sw.js 35-39: one caches.delete settles, in any order. When the last one
\* has resolved, Promise.all resolves and clients.claim is called; when one
\* rejects, Promise.all and with it the handler's promise reject.
ActivateDelete(key, ok) ==
  /\ activate.pc \in {"deleting", "rejected"}
  /\ key \in activate.pending
  /\ cacheStore' = IF ok THEN [cacheStore EXCEPT ![key] = NoCache] ELSE cacheStore
  /\ LET left   == activate.pending \ {key}
         failed == activate.failed \/ ~ok
     IN activate' = [activate EXCEPT
          !.pending = left,
          !.deleted = IF ok THEN @ \cup {key} ELSE @,
          !.failed = failed,
          !.pc = IF failed THEN "rejected"
                 ELSE IF left = {} THEN "claim" ELSE "deleting",
          !.claimCalled = (~failed /\ left = {})]
  /\ UNCHANGED <<install, fetches>>
  /\ UNCHANGED <<reminderVars, feedbackVars, metricsVars>>

\* sw.js 39: clients.claim() resolves; the activate promise resolves.
ActivateClaim ==
  /\ activate.pc = "claim"
  /\ activate' = [activate EXCEPT !.pc = "activated"]
  /\ UNCHANGED <<cacheStore, install, fetches>>
  /\ UNCHANGED <<reminderVars, feedbackVars, metricsVars>>

\* sw.js 45 without the '/api/' test
bypassNonGet(method, url) == method # "GET"

\* sw.js 45: the requests the handler leaves to the browser.
bypass(method, url) ==
  method # "GET" \/ Includes(url, <<"/", "a", "p", "i", "/">>)

\* sw.js 49: caches.match(request) over every cache of the origin.
cachesMatch(url) ==
  \E n \in CacheNames : cacheStore[n].exists /\ url \in cacheStore[n].entries

\* sw.js 44-49: a fetch event; the worker handles it once its activation
\* has settled.
FetchEvent(f, method, url) ==
  /\ activate.pc \in {"activated", "rejected"}
  /\ fetches[f].pc = "idle"
  /\ \A g \in FetchSlots : g < f => fetches[g].pc # "idle"
  /\ fetches' = [fetches EXCEPT ![f] =
       IF bypass(method, url)
       THEN [IdleFetch EXCEPT !.pc = "passthrough", !.method = method, !.url = url]
       ELSE [IdleFetch EXCEPT !.pc = "match", !.method = method, !.url = url,
                              !.respondWith = TRUE]]
  /\ UNCHANGED <<cacheStore, install, activate>>
  /\ UNCHANGED <<reminderVars, feedbackVars, metricsVars>>

\* sw.js 50 going to the network whatever the cache holds
orFetchAlways(cached) == "fetch"

\* sw.js 50: response || fetch(event.request)
orFetch(cached) == IF cached THEN "cache" ELSE "fetch"

\* sw.js 49-50: caches.match resolves: the cached response, or fetch(request).
FetchMatch(f) ==
  /\ fetches[f].pc = "match"
  /\ LET cached == cachesMatch(fetches[f].url)
     IN fetches' = [fetches EXCEPT ![f] =
          IF orFetch(cached) = "cache"
          THEN [@ EXCEPT !.pc = "done", !.hit = cached, !.response = "cache"]
          ELSE [@ EXCEPT !.pc = "network", !.hit = cached, !.network = TRUE]]
  /\ UNCHANGED <<cacheStore, install, activate>>
  /\ UNCHANGED <<reminderVars, feedbackVars, metricsVars>>

\* sw.js 50: fetch(request) settles: its response, or a network error.
FetchNetwork(f, ok) ==
  /\ fetches[f].pc = "network"
  /\ fetches' = [fetches EXCEPT ![f].pc = "done",
                                ![f].response = IF ok THEN "network" ELSE "error"]
  /\ UNCHANGED <<cacheStore, install, activate>>
  /\ UNCHANGED <<reminderVars, feedbackVars, metricsVars>>

FetchSteps ==
  \/ \E f \in FetchSlots, m \in RequestMethods, u \in RequestUrls : FetchEvent(f, m, u)
  \/ \E f \in FetchSlots : FetchMatch(f)
  \/ \E f \in FetchSlots, ok \in BOOLEAN : FetchNetwork(f, ok)

CacheNext ==
  \/ InstallEvent
  \/ InstallOpen
  \/ \E ok \in BOOLEAN : InstallAddAll(ok)
  \/ InstallSkipWaiting
  \/ ActivateEvent
  \/ ActivateKeys
  \/ \E key \in CacheNames, ok \in BOOLEAN : ActivateDelete(key, ok)
  \/ ActivateClaim
  \/ FetchSteps

\* The cache part at rest, for the specifications of the other parts.
CacheParked ==
  /\ cacheStore = [n \in CacheNames |-> NoCache]
  /\ install = [pc |-> "waiting"]
  /\ activate = [pc |-> "waiting", atEvent |-> {}, keys |-> {}, pending |-> {},
                 deleted |-> {}, failed |-> FALSE, claimCalled |-> FALSE]
  /\ fetches = [f \in FetchSlots |-> IdleFetch]

---------------------------------------------------------------------------
(* Claims about install, activate and fetch.                               *)

\* The request URLs that contain '/api/'.
ApiUrls == {UrlFeedback}

\* What the fetch handler did with the request of slot f.
fetchOutcome(f) ==
  LET r == fetches[f]
  IN /\ (r.pc # "idle" /\ (r.method # "GET" \/ r.url \in ApiUrls)) =>
          ( /\ r.pc = "passthrough" /\ ~r.respondWith
            /\ ~r.network /\ r.response = "none" )
     /\ (r.pc # "idle" /\ r.method = "GET" /\ r.url \notin ApiUrls) =>
          (r.respondWith /\ r.pc \in {"match", "network", "done"})
     /\ r.pc = "done" =>
          \/ (r.hit /\ r.response = "cache" /\ ~r.network)
          \/ (~r.hit /\ r.network /\ r.response \in {"network", "error"})
     /\ r.pc = "network" => (~r.hit /\ r.network)

\* C2: for every GET request whose URL does not contain '/api/', the
\* response is the cached entry when caches.match finds one (and the network
\* is not contacted) and the result of fetch(request) otherwise; for every
\* non-GET request and every request whose URL contains '/api/' respondWith
\* is never called; and no step of the fetch handler changes a cache.
C2_ServeFromCache ==
  /\ [](\A f \in FetchSlots : fetchOutcome(f))
  /\ [][fetches' # fetches => cacheStore' = cacheStore]_vars

\* C2's case: a GET outside '/api/' answered from the cache, the network
\* not contacted.
C2_Witness ==
  \E f \in FetchSlots :
    /\ fetches[f].pc = "done" /\ fetches[f].method = "GET"
    /\ fetches[f].url = UrlIndex
    /\ fetches[f].hit /\ fetches[f].response = "cache" /\ ~fetches[f].network

\* C3: whatever caches exist when the activate event fires, once the
\* activate handler's promise has resolved every cache named other than
\* CACHE_NAME has been deleted and the cache CACHE_NAME still exists; the
\* deletion of CACHE_NAME is never requested; and clients.claim() is called
\* only after every one of those deletions has completed.
C3_ActivateCleansOldCaches ==
  /\ activate.pc = "activated" =>
       /\ \A n \in activate.atEvent \ {CACHE_NAME} :
            ~cacheStore[n].exists /\ n \in activate.deleted
       /\ CACHE_NAME \in activate.atEvent
       /\ cacheStore[CACHE_NAME].exists
  /\ CACHE_NAME \notin activate.pending \cup activate.deleted
  /\ activate.claimCalled =>
       /\ activate.pending = {}
       /\ \A n \in activate.atEvent \ {CACHE_NAME} :
            ~cacheStore[n].exists /\ n \in activate.deleted

\* C3's case: both old caches existed at the activate event, and the
\* handler's promise has resolved.
C3_Witness ==
  /\ activate.pc = "activated"
  /\ activate.atEvent = CacheNames
  /\ activate.deleted = OldCacheNames

---------------------------------------------------------------------------
(* The feedback handlers: api/feedback.js holds three versions of the      *)
(* default export: "gpt-4o-mini" (5-35), "audio" (153-333), "gpt-4o"       *)
(* (339-378).                                                              *)

\* Bound of the model: the parts of a multipart body.
MaxParts == 2

Handlers == {"gpt-4o-mini", "audio", "gpt-4o"}
Methods  == {"GET", "POST", "OPTIONS", "PUT"}

\* Content-Type header values, as the tokens the handler looks for.
ContentTypes ==
  { <<>>,
    <<"application/json">>,
    <<"multipart/form-data">>,
    <<"multipart/form-data", "; ", "boundary=">>,
    <<"multipart/form-data", "; ", "boundary=", "XyZ">> }

\* Values of body.text: undefined, a number, strings.
TextValues ==
  { [type |-> "undefined", chars |-> <<>>],
    [type |-> "number",    chars |-> <<"5">>],
    [type |-> "string",    chars |-> <<>>],
    [type |-> "string",    chars |-> <<" ", "\t">>],
    [type |-> "string",    chars |-> <<" ", "h", "i", " ">>] }

\* req.body: undefined, or an object with the member text.
Bodies == [present : {FALSE}, text : {[type |-> "undefined", chars |-> <<>>]}]
            \cup [present : {TRUE}, text : TextValues]

\* The parts of a multipart body: whether the part has a
\* Content-Disposition header, its name="..." and its filename="..."
\* ('' when the part has none).
PartValues ==
  { [disposition |-> TRUE,  name |-> "audio",    filename |-> "speech.webm"],
    [disposition |-> TRUE,  name |-> "audio",    filename |-> ""],
    [disposition |-> TRUE,  name |-> "duration", filename |-> ""],
    [disposition |-> TRUE,  name |-> "photo",    filename |-> "me.png"],
    [disposition |-> FALSE, name |-> "",         filename |-> ""] }

PartSeqs == UNION {[1..n -> PartValues] : n \in 0..MaxParts}

\* error.status of a thrown error: none (a connection error, a plain
\* Error), or the HTTP status of a vendor API error.
ErrorStatuses == {<<>>, <<401>>, <<429>>, <<500>>}

NothingThrown == [any |-> FALSE, by |-> "none", status |-> <<>>]

isSpace(c) == c \in {" ", "\t", "\n"}

\* String.prototype.trim
RECURSIVE trimStart(_)
trimStart(s) ==
  IF Len(s) > 0 /\ isSpace(s[1]) THEN trimStart(Tail(s)) ELSE s

RECURSIVE trimEnd(_)
trimEnd(s) ==
  IF Len(s) > 0 /\ isSpace(s[Len(s)]) THEN trimEnd(SubSeq(s, 1, Len(s) - 1)) ELSE s

trim(s) == trimEnd(trimStart(s))

\* !text of a value of body.text
falsy(text) ==
  \/ text.type = "undefined"
  \/ (text.type = "string" /\ Len(text.chars) = 0)

\* feedback.js 12, 276, 346 without the trim
missingTextUntrimmed(text) == falsy(text) \/ text.type # "string"

\* feedback.js 12, 276, 346: !text || typeof text !== 'string' || !text.trim()
missingText(text) ==
  falsy(text) \/ text.type # "string" \/ Len(trim(text.chars)) = 0

\* feedback.js 11, 275, 345: const { text } = req.body || {}
textOf(body) ==
  IF body.present THEN body.text ELSE [type |-> "undefined", chars |-> <<>>]

\* feedback.js 174: contentType.includes('multipart/form-data')
isMultipart(contentType) ==
  \E k \in 1..Len(contentType) : contentType[k] = "multipart/form-data"

\* feedback.js 56: contentType.split('boundary=')[1]; <<>> when it is
\* undefined or ''.
boundaryOf(contentType) ==
  IF \A k \in 1..Len(contentType) : contentType[k] # "boundary="
  THEN <<>>
  ELSE LET first == CHOOSE k \in 1..Len(contentType) :
                      /\ contentType[k] = "boundary="
                      /\ \A j \in 1..(k - 1) : contentType[j] # "boundary="
           rest  == SubSeq(contentType, first + 1, Len(contentType))
       IN IF \A k \in 1..Len(rest) : rest[k] # "boundary="
          THEN rest
          ELSE SubSeq(rest, 1,
                 (CHOOSE k \in 1..Len(rest) :
                    /\ rest[k] = "boundary="
                    /\ \A j \in 1..(k - 1) : rest[j] # "boundary=") - 1)

\* feedback.js 65-89: the names of the files of a multipart body.
filesOf(parts) ==
  { parts[k].name : k \in { j \in 1..Len(parts) :
       parts[j].disposition /\ parts[j].name # "" /\ parts[j].filename # "" } }

\* feedback.js 49-98: parseMultipartForm rejects on a stream error and when
\* the content type names no boundary.
parseRejects(r) == r.streamError \/ boundaryOf(r.contentType) = <<>>

\* feedback.js 304-332 answering 500 whatever was thrown
errorStatusAlways500(handler, status) == 500

\* feedback.js 33, 376 and 304-332: the status of the catch block's answer.
errorStatus(handler, status) ==
  IF handler = "audio" /\ status # <<>> THEN status[1] ELSE 500

Response(status, body, allow) ==
  [status |-> status, body |-> body, allow |-> allow,
   cors |-> (req.handler = "audio")]

FeedbackInit ==
  /\ req \in { r \in [handler : Handlers, method : Methods,
                      contentType : ContentTypes, body : Bodies,
                      parts : PartSeqs, streamError : BOOLEAN] :
                 \* only the audio handler reads the content type and the
                 \* raw body; a multipart body is no parsed req.body
                 /\ r.handler # "audio" =>
                      (r.contentType = <<"application/json">> /\ r.parts = <<>>
                        /\ ~r.streamError)
                 /\ ~isMultipart(r.contentType) => (r.parts = <<>> /\ ~r.streamError)
                 /\ isMultipart(r.contentType) => ~r.body.present
                 /\ r.method # "POST" =>
                      (r.parts = <<>> /\ ~r.body.present /\ ~r.streamError) }
  /\ hpc = "start"
  /\ responses = <<>>
  /\ vendorCalls = <<>>
  /\ thrown = NothingThrown

\* The answer of a catch block to an exception thrown by `by`.
catch(by, status) ==
  /\ thrown' = [any |-> TRUE, by |-> by, status |-> status]
  /\ responses' = Append(responses,
       Response(errorStatus(req.handler, status), "error", FALSE))
  /\ hpc' = "done"

\* A vendor API is called: the call is in flight.
call(api) == vendorCalls' = Append(vendorCalls, [api |-> api, outcome |-> "pending"])

\* The vendor call in flight settles.
settle(outcome) ==
  vendorCalls' = [vendorCalls EXCEPT ![Len(vendorCalls)].outcome = outcome]

\* feedback.js 5-27, 153-180 and 273-298, 339-370: the handler up to its
\* first await.
HandleRequest ==
  /\ hpc = "start"
  /\ IF req.handler = "audio" /\ req.method = "OPTIONS"
     THEN /\ responses' = Append(responses, Response(200, "empty", FALSE))
          /\ hpc' = "done"
          /\ UNCHANGED <<vendorCalls, thrown>>
     ELSE IF req.method # "POST"
     THEN /\ responses' = Append(responses, Response(405, "error", TRUE))
          /\ hpc' = "done"
          /\ UNCHANGED <<vendorCalls, thrown>>
     ELSE IF req.handler = "audio" /\ isMultipart(req.contentType)
     THEN /\ hpc' = "parse"
          /\ UNCHANGED <<responses, vendorCalls, thrown>>
     ELSE IF missingText(textOf(req.body))
     THEN /\ responses' = Append(responses, Response(400, "error", FALSE))
          /\ hpc' = "done"
          /\ UNCHANGED <<vendorCalls, thrown>>
     ELSE /\ call("chat")
          /\ hpc' = "chat"
          /\ UNCHANGED <<responses, thrown>>
  /\ UNCHANGED req
  /\ UNCHANGED <<reminderVars, cacheVars, metricsVars>>

\* feedback.js 175-190: parseMultipartForm settles; without an audio file
\* the answer is 400, with one the transcription is requested.
ParseSettles ==
  /\ hpc = "parse"
  /\ IF parseRejects(req)
     THEN catch("parse", <<>>) /\ UNCHANGED vendorCalls
     ELSE IF "audio" \notin filesOf(req.parts)
     THEN /\ responses' = Append(responses, Response(400, "error", FALSE))
          /\ hpc' = "done"
          /\ UNCHANGED <<vendorCalls, thrown>>
     ELSE /\ call("transcription")
          /\ hpc' = "transcribe"
          /\ UNCHANGED <<responses, thrown>>
  /\ UNCHANGED req
  /\ UNCHANGED <<reminderVars, cacheVars, metricsVars>>

\* feedback.js 185-218 going on to the chat completion whatever happened
nextAfterTranscriptionAlways(ok) == "chat"

\* feedback.js 185-218: the chat completion follows a transcription that
\* resolved; one that threw leaves the try block.
nextAfterTranscription(ok) == IF ok THEN "chat" ELSE "catch"

\* feedback.js 185-218 (and 304-332): the transcription settles.
TranscriptionSettles(ok, status) ==
  /\ hpc = "transcribe"
  /\ (ok => status = <<>>)
  /\ IF nextAfterTranscription(ok) = "chat"
     THEN /\ vendorCalls' =
               Append([vendorCalls EXCEPT ![Len(vendorCalls)].outcome =
                          IF ok THEN "ok" ELSE "failed"],
                      [api |-> "chat", outcome |-> "pending"])
          /\ hpc' = "chat"
          /\ UNCHANGED <<responses, thrown>>
     ELSE /\ settle("failed")
          /\ catch("transcription", status)
  /\ UNCHANGED req
  /\ UNCHANGED <<reminderVars, cacheVars, metricsVars>>

\* feedback.js 17-34, 218-271 and 280-301 (and 304-332), 351-377: the chat
\* completion settles.
ChatSettles(ok, status) ==
  /\ hpc = "chat"
  /\ (ok => status = <<>>)
  /\ IF ok
     THEN /\ settle("ok")
          /\ responses' = Append(responses, Response(200, "feedback", FALSE))
          /\ hpc' = "done"
          /\ UNCHANGED thrown
     ELSE /\ settle("failed")
          /\ catch("chat", status)
  /\ UNCHANGED req
  /\ UNCHANGED <<reminderVars, cacheVars, metricsVars>>

FeedbackNext ==
  \/ HandleRequest
  \/ ParseSettles
  \/ \E ok \in BOOLEAN, status \in ErrorStatuses : TranscriptionSettles(ok, status)
  \/ \E ok \in BOOLEAN, status \in ErrorStatuses : ChatSettles(ok, status)

\* The feedback part at rest, for the specifications of the other parts.
FeedbackParked ==
  /\ req = [handler |-> "gpt-4o", method |-> "GET",
            contentType |-> <<"application/json">>,
            body |-> [present |-> FALSE, text |-> [type |-> "undefined", chars |-> <<>>]],
            parts |-> <<>>, streamError |-> FALSE]
  /\ hpc = "start"
  /\ responses = <<>>
  /\ vendorCalls = <<>>
  /\ thrown = NothingThrown

---------------------------------------------------------------------------
(* Claims about the feedback handlers.                                     *)

\* The answer the handler sent, once it has sent one.
answer == responses[1]

\* C5 as stated: every invocation sends exactly one response, and whenever
\* body parsing, the transcription or the chat completion throws, the
\* response is HTTP 500 with an 'error' field.
C5_AlwaysGeneric500 ==
  hpc = "done" =>
    /\ Len(responses) = 1
    /\ thrown.any => (answer.status = 500 /\ answer.body = "error")

\* C5, amended: every invocation sends exactly one response, and whenever
\* body parsing, the transcription or the chat completion throws, the
\* exception is caught and the response carries an 'error' field and an
\* error status, never 200: the thrown error's own status when the
\* audio/text handler catches an error that has one (a vendor API error),
\* and 500 in every other case.
C5_CatchLogAnswer ==
  /\ Len(responses) <= 1
  /\ (hpc = "done" <=> Len(responses) = 1)
  /\ thrown.any =>
       /\ hpc = "done"
       /\ answer.body = "error"
       /\ answer.status # 200
       /\ answer.status =
            IF req.handler = "audio" /\ thrown.status # <<>>
            THEN thrown.status[1] ELSE 500

\* C5's case: the transcription threw a vendor API error with status 429.
C5_Witness ==
  /\ hpc = "done" /\ req.handler = "audio"
  /\ thrown.any /\ thrown.by = "transcription" /\ thrown.status = <<429>>
  /\ answer.status = 429

\* The positions of the calls of a vendor API in this invocation.
callsOf(api) == {k \in 1..Len(vendorCalls) : vendorCalls[k].api = api}

\* The request takes the audio path of the audio/text handler.
audioPath ==
  /\ req.handler = "audio"
  /\ Len(req.contentType) > 0
  /\ req.contentType[1] = "multipart/form-data"

\* C6: within one invocation the transcription API is called at most once
\* and the chat-completion API at most once; on the audio path the chat
\* completion is called only after the transcription has succeeded; and
\* after a vendor call has failed no further vendor call is made.
C6_NoRetry ==
  /\ Cardinality(callsOf("transcription")) <= 1
  /\ Cardinality(callsOf("chat")) <= 1
  /\ \A k \in callsOf("chat") :
       audioPath => ( /\ k > 1
                      /\ vendorCalls[k - 1].api = "transcription"
                      /\ vendorCalls[k - 1].outcome = "ok" )
  /\ \A k \in 1..Len(vendorCalls) :
       vendorCalls[k].outcome = "failed" => k = Len(vendorCalls)
  /\ \A k \in callsOf("transcription") : audioPath

\* C6's case: the transcription failed, the response has been sent, and it
\* was the only vendor call.
C6_Witness ==
  /\ hpc = "done"
  /\ vendorCalls = <<[api |-> "transcription", outcome |-> "failed"]>>

\* The request carries an 'audio' file part.
carriesAudio ==
  \E k \in 1..Len(req.parts) :
    /\ req.parts[k].disposition
    /\ req.parts[k].name = "audio"
    /\ req.parts[k].filename # ""

\* The request carries a text value that is a string with at least one
\* non-whitespace character.
carriesText ==
  /\ req.body.present
  /\ req.body.text.type = "string"
  /\ \E k \in 1..Len(req.body.text.chars) :
       req.body.text.chars[k] \notin {" ", "\t", "\n"}

\* The methods the handler does not answer 405.
allowed == IF req.handler = "audio" THEN {"POST", "OPTIONS"} ELSE {"POST"}

\* The multipart body of the request cannot be parsed: the stream failed,
\* or the content type gives no boundary.
unparsable ==
  /\ audioPath
  /\ \/ req.streamError
     \/ ~ \E k \in 1..(Len(req.contentType) - 1) : req.contentType[k] = "boundary="

\* What C7 says of every rejected request but the POST without input.
rejectedByMethod ==
  /\ req.method \notin allowed =>
       ( /\ answer.status = 405 /\ answer.allow /\ answer.body = "error"
         /\ vendorCalls = <<>> )
  /\ (req.handler = "audio" /\ req.method = "OPTIONS") =>
       ( /\ answer.status = 200 /\ answer.body = "empty"
         /\ vendorCalls = <<>> )

\* C7 as stated: a request whose method is not allowed is answered 405 with
\* Allow: POST, OPTIONS to the CORS-enabled handler 200 with an empty body,
\* a POST with neither an 'audio' file part nor a usable text 400; and no
\* vendor call is made in any of these cases.
C7_InvalidAnswered400 ==
  hpc = "done" =>
    /\ rejectedByMethod
    /\ (req.method = "POST" /\ ~carriesAudio /\ ~carriesText) =>
         (answer.status = 400 /\ vendorCalls = <<>>)

\* C7, amended: as stated, except that a multipart POST to the audio/text
\* handler whose body cannot be parsed (no boundary in the content type, or
\* a failed request stream) is answered 500 with an 'error' field instead
\* of 400; no vendor call is made in any of these cases, and a vendor API
\* is called only for a POST that carries an audio file part or a usable
\* text.
C7_VendorOnlyForValidPost ==
  /\ vendorCalls # <<>> =>
       (req.method = "POST" /\ (carriesAudio \/ carriesText))
  /\ hpc = "done" =>
       /\ rejectedByMethod
       /\ (req.method = "POST" /\ ~carriesAudio /\ ~carriesText) =>
            /\ answer.status = IF unparsable THEN 500 ELSE 400
            /\ answer.body = "error"
            /\ vendorCalls = <<>>

\* C7's case: a multipart POST to the audio/text handler whose only part
\* named 'audio' is a plain field, answered 400 with no vendor call.
C7_Witness ==
  /\ hpc = "done" /\ req.method = "POST" /\ audioPath
  /\ req.parts = <<[disposition |-> TRUE, name |-> "audio", filename |-> ""]>>
  /\ answer.status = 400 /\ vendorCalls = <<>>

---------------------------------------------------------------------------
(* analyzeMetrics: api/feedback.js 101-151. Times are in milliseconds.     *)

\* Bound of the model: the words of a transcription.
MaxWords == 4

\* A JavaScript value of the result: a number, Infinity, NaN, or the string
\* toFixed(2) makes (value: hundredths).
Num(n)    == [kind |-> "number", value |-> n]
Infinity  == [kind |-> "Infinity", value |-> 0]
NaN       == [kind |-> "NaN", value |-> 0]
Fixed2(h) == [kind |-> "string", value |-> h]
Undefined == [kind |-> "undefined", value |-> 0]

\* The texts of the recognized words, and the silence before a word.
WordTexts == { <<"h", "e", "l", "l", "o">>, <<" ", "U", "m">> }
Gaps      == {0, 200, 250}

SpokenWords == [word : WordTexts, gap : Gaps]

\* The words of a transcription with their timestamps: each word starts
\* after the silence that follows the word before it and lasts 300 ms.
RECURSIVE timed(_, _)
timed(spoken, from) ==
  IF spoken = <<>> THEN <<>>
  ELSE LET start == from + Head(spoken).gap
       IN <<[word |-> Head(spoken).word, start |-> start, end |-> start + 300]>>
            \o timed(Tail(spoken), start + 300)

\* The values of the parameter words: null, undefined, or an array.
WordsValues ==
  { [kind |-> "null", items |-> <<>>], [kind |-> "undefined", items |-> <<>>] }
    \cup { [kind |-> "array", items |-> timed(sp, 0)] :
             sp \in UNION {[1..n -> SpokenWords] : n \in 0..MaxWords} }

\* The values of the parameter duration: 0, NaN (parseFloat of a field that
\* is no number), one second, one minute.
DurationValues == { Num(0), NaN, Num(1000), Num(60000) }

UpperCase == <<"A", "B", "C", "D", "E", "F", "G", "H", "I", "J", "K", "L", "M", "N", "O", "P", "Q", "R", "S", "T", "U", "V", "W", "X", "Y", "Z">>
LowerCase == <<"a", "b", "c", "d", "e", "f", "g", "h", "i", "j", "k", "l", "m", "n", "o", "p", "q", "r", "s", "t", "u", "v", "w", "x", "y", "z">>

\* String.prototype.toLowerCase
toLowerCase(str) ==
  [k \in 1..Len(str) |->
     IF \E a \in 1..Len(UpperCase) : UpperCase[a] = str[k]
     THEN LowerCase[CHOOSE a \in 1..Len(UpperCase) : UpperCase[a] = str[k]]
     ELSE str[k]]

\* feedback.js 112
fillerWords ==
  { <<"u", "m">>,
    <<"u", "h">>,
    <<"l", "i", "k", "e">>,
    <<"y", "o", "u", " ", "k", "n", "o", "w">>,
    <<"s", "o">>,
    <<"b", "a", "s", "i", "c", "a", "l", "l", "y">>,
    <<"a", "c", "t", "u", "a", "l", "l", "y">>,
    <<"l", "i", "t", "e", "r", "a", "l", "l", "y">> }

\* feedback.js 102 without the length test
noWordsNullOnly(words) == words.kind # "array"

\* feedback.js 102: !words || words.length === 0
noWords(words) == words.kind # "array" \/ Len(words.items) = 0

\* feedback.js 117-122
fillerCount(items) ==
  Cardinality({k \in 1..Len(items) : trim(toLowerCase(items[k].word)) \in fillerWords})

\* feedback.js 125-130 with >= for >: a gap of exactly 200 ms is a pause.
pausesOfInclusive(items) ==
  LET at == {i \in 2..Len(items) : items[i].start - items[i - 1].end >= 200}
  IN [i \in at |-> items[i].start - items[i - 1].end]

\* feedback.js 125-130: the pauses longer than 200 ms, by the index of the
\* word they precede.
pausesOf(items) ==
  LET at == {i \in 2..Len(items) : items[i].start - items[i - 1].end > 200}
  IN [i \in at |-> items[i].start - items[i - 1].end]

RECURSIVE sumOver(_, _)
sumOver(f, S) ==
  IF S = {} THEN 0
  ELSE LET x == CHOOSE y \in S : TRUE IN f[x] + sumOver(f, S \ {x})

maxOver(f, S) == CHOOSE m \in {f[x] : x \in S} : \A x \in S : f[x] <= m

\* feedback.js 133: Math.round((words.length / duration) * 60)
wordsPerMinuteOf(n, duration) ==
  IF duration.kind = "NaN" THEN NaN
  ELSE IF duration.value = 0 THEN (IF n = 0 THEN NaN ELSE Infinity)
  ELSE Num((2 * n * 60000 + duration.value) \div (2 * duration.value))

\* wordsPerMinute > 150
above150(wpm) ==
  wpm.kind = "Infinity" \/ (wpm.kind = "number" /\ wpm.value > 150)

\* feedback.js 136-141
pacingOf(pauseCount, n, wpm) ==
  IF 10 * pauseCount > 3 * n THEN "halting"
  ELSE IF 10 * pauseCount < n /\ above150(wpm) THEN "rushed"
  ELSE "steady"

\* feedback.js 101-151
analyzeMetrics(words, duration) ==
  IF noWords(words)
  THEN [wordsPerMinute |-> Num(0), averagePauseDuration |-> Num(0),
        longestPause |-> Num(0), fillerWordCount |-> Num(0),
        pauseCount |-> Undefined, pacingVariation |-> "unknown"]
  ELSE LET items  == words.items
           n      == Len(items)
           pauses == pausesOf(items)
           count  == Cardinality(DOMAIN pauses)
           wpm    == wordsPerMinuteOf(n, duration)
       IN [wordsPerMinute |-> wpm,
           averagePauseDuration |->
             IF count > 0
             THEN Fixed2((2 * sumOver(pauses, DOMAIN pauses) + 10 * count)
                           \div (20 * count))
             ELSE Num(0),
           longestPause |->
             IF count > 0
             THEN Fixed2((maxOver(pauses, DOMAIN pauses) + 5) \div 10)
             ELSE Num(0),
           fillerWordCount |-> Num(fillerCount(items)),
           pauseCount |-> Num(count),
           pacingVariation |-> pacingOf(count, n, wpm)]

\* The divisions by duration a call performs (feedback.js 133).
divisionsBy(words) == IF noWords(words) THEN 0 ELSE 1

NotReturned ==
  [wordsPerMinute |-> Undefined, averagePauseDuration |-> Undefined,
   longestPause |-> Undefined, fillerWordCount |-> Undefined,
   pauseCount |-> Undefined, pacingVariation |-> "not returned"]

MetricsInit ==
  /\ mWords \in WordsValues
  /\ mDuration \in DurationValues
  /\ mResult = NotReturned
  /\ mDivisions = 0

\* feedback.js 101-151: the call analyzeMetrics(words, duration).
Analyze ==
  /\ mResult = NotReturned
  /\ mResult' = analyzeMetrics(mWords, mDuration)
  /\ mDivisions' = divisionsBy(mWords)
  /\ UNCHANGED <<mWords, mDuration>>
  /\ UNCHANGED <<reminderVars, cacheVars, feedbackVars>>

MetricsNext == Analyze

\* The metrics part at rest, for the specifications of the other parts.
MetricsParked ==
  /\ mWords = [kind |-> "null", items |-> <<>>]
  /\ mDuration = Num(0)
  /\ mResult = NotReturned
  /\ mDivisions = 0

---------------------------------------------------------------------------
(* Claim about analyzeMetrics.                                             *)

\* C4: whenever words is null, undefined or an empty sequence, for every
\* value of duration, the result has wordsPerMinute = 0,
\* averagePauseDuration = 0, longestPause = 0, fillerWordCount = 0 and
\* pacingVariation = 'unknown', and no division by duration is performed.
C4_UnknownOnEmptyInput ==
  ( /\ mResult # NotReturned
    /\ (mWords.kind \in {"null", "undefined"} \/ mWords.items = <<>>) )
  => /\ mResult.wordsPerMinute = Num(0)
     /\ mResult.averagePauseDuration = Num(0)
     /\ mResult.longestPause = Num(0)
     /\ mResult.fillerWordCount = Num(0)
     /\ mResult.pacingVariation = "unknown"
     /\ mDivisions = 0

\* C4's case: the empty array with duration 0, where a division would
\* yield NaN.
C4_Witness ==
  /\ mResult # NotReturned
  /\ mWords = [kind |-> "array", items |-> <<>>]
  /\ mDuration = Num(0)
  /\ mResult.pacingVariation = "unknown"

\* The adjacent pairs of the analyzed words that are more than 0.2 s apart.
longGaps ==
  {i \in 2..Len(mWords.items) :
     mWords.items[i].start - mWords.items[i - 1].end > 200}

\* The returned wordsPerMinute is greater than 150.
returnedFast ==
  \/ mResult.wordsPerMinute.kind = "Infinity"
  \/ (mResult.wordsPerMinute.kind = "number" /\ mResult.wordsPerMinute.value > 150)

\* C12: for every non-empty word sequence, pauseCount is the number of
\* adjacent pairs with words[i].start - words[i-1].end strictly greater
\* than 0.2 s, so at most words.length - 1; pacingVariation is 'halting'
\* exactly when pauseCount > 0.3 * words.length, otherwise 'rushed' exactly
\* when pauseCount < 0.1 * words.length and wordsPerMinute > 150, otherwise
\* 'steady'; 'unknown' is never returned.
C12_PausesAndPacing ==
  ( /\ mResult # NotReturned
    /\ mWords.kind = "array" /\ mWords.items # <<>> )
  => LET n     == Len(mWords.items)
         count == Cardinality(longGaps)
         halting == 10 * count > 3 * n
         rushed  == ~halting /\ 10 * count < n /\ returnedFast
     IN /\ mResult.pauseCount = Num(count)
        /\ count <= n - 1
        /\ (mResult.pacingVariation = "halting") <=> halting
        /\ (mResult.pacingVariation = "rushed") <=> rushed
        /\ (mResult.pacingVariation = "steady") <=> (~halting /\ ~rushed)
        /\ mResult.pacingVariation # "unknown"

\* C12's case: three words, one gap of exactly 0.2 s and one of 0.25 s, are
\* one pause, and one pause in three words is halting.
C12_Witness ==
  /\ mResult # NotReturned
  /\ mWords.kind = "array" /\ Len(mWords.items) = 3
  /\ mWords.items[2].start - mWords.items[1].end = 200
  /\ mWords.items[3].start - mWords.items[2].end = 250
  /\ mResult.pauseCount = Num(1)
  /\ mResult.pacingVariation = "halting"

---------------------------------------------------------------------------
(* The specifications.                                                     *)

ReminderSpecInit == ReminderInit /\ CacheParked /\ FeedbackParked /\ MetricsParked
CacheSpecInit    == CacheInit /\ ReminderParked /\ FeedbackParked /\ MetricsParked
FeedbackSpecInit == FeedbackInit /\ ReminderParked /\ CacheParked /\ MetricsParked
MetricsSpecInit  == MetricsInit /\ ReminderParked /\ CacheParked /\ FeedbackParked

\* The daily reminder: every invocation the events start, the page, the clock.
SpecReminder == ReminderSpecInit /\ [][ReminderNext]_vars

\* The daily reminder: one invocation, the page, the clock.
SpecInvocation == ReminderSpecInit /\ [][InvocationNext]_vars

\* Install, activate and fetch.
SpecCache == CacheSpecInit /\ [][CacheNext]_vars

\* One invocation of a feedback handler.
SpecFeedback == FeedbackSpecInit /\ [][FeedbackNext]_vars

\* One call of analyzeMetrics.
SpecMetrics == MetricsSpecInit /\ [][MetricsNext]_vars

====
